---- MODULE Spec2Model ----
(***************************************************************************)
(* Model of the nom-lisp evaluator core: the scope stack (NSStack), the    *)
(* runtime values (Data), the tree interpreter (Node::eval, Data::exec)    *)
(* and the intrinsics of runtime/intrinsic.rs, driven either by the REPL   *)
(* loop of main.rs (Spec) or by the public NSStack interface (SpecNS).     *)
(***************************************************************************)
EXTENDS Integers, Sequences, FiniteSets, TLC

VARIABLES
    spaces,           \* NSStack.spaces: sequence of namespaces, index 1 = base frame
    status,           \* "running", "panicked" (unwinding panic) or "exhausted" (host stack)
    node,             \* the node handed to the last eval (main.rs `node`)
    result,           \* the outcome of the last operation (main.rs `result`)
    trace,            \* the nodes whose Node::eval was entered by the last eval, in order
    entered,          \* history: one record per enter_scope call made through the interface
    overflow_checks   \* whether the build traps i32 overflow (debug) or wraps (release)

vars == <<spaces, status, node, result, trace, entered, overflow_checks>>

----------------------------------------------------------------------------
(* Bounds *)

MaxFrames == 2        \* enter_scope stops at this depth, and no eval starts above it
MaxDepth == 5         \* host call-stack budget, in nested Node::eval calls

----------------------------------------------------------------------------
(* ast.rs: syntax nodes *)

Identifier(x) == [k |-> "Identifier", x |-> x]
List(ops) == [k |-> "List", ops |-> ops]
StringLiteral(s) == [k |-> "StringLiteral", s |-> s]
IntegerLiteral(i) == [k |-> "IntegerLiteral", i |-> i]
QuoteNode(n) == [k |-> "Quote", boxed |-> n]
NoNode == [k |-> "None"]

(* runtime/mod.rs: runtime values *)

DQuote(n) == [tag |-> "Quote", n |-> n]
DInt(i) == [tag |-> "Int", i |-> i]
DStr(s) == [tag |-> "Str", s |-> s]
DIntrinsic(name, f) == [tag |-> "Intrinsic", name |-> name, f |-> f]
DFunction(argnames, body) == [tag |-> "Function", argnames |-> argnames, body |-> body]
DEmpty == [tag |-> "Empty"]

(* runtime/error.rs: error values *)

TypeError(msg) == [e |-> "TypeError", msg |-> msg]
SyntaxError(msg) == [e |-> "SyntaxError", msg |-> msg]
StackEmpty == [e |-> "StackEmpty"]
VariableNotFound(name) == [e |-> "VariableNotFound", name |-> name]
RuntimeError(msg) == [e |-> "Runtime", msg |-> msg]

(* Result<Data>, extended with the two ways an evaluation can fail to return *)

Ok(v, st) == [kind |-> "Ok", v |-> v, st |-> st]
Err(e, st) == [kind |-> "Err", v |-> e, st |-> st]
Panic(st) == [kind |-> "Panic", v |-> DEmpty, st |-> st]
Exhausted(st) == [kind |-> "Exhausted", v |-> DEmpty, st |-> st]

I32Max == 2147483647
I32Min == -I32Max - 1

----------------------------------------------------------------------------
(* NSStack *)

NewNamespace == [n \in {} |-> DEmpty]

Insert(space, key, v) == [n \in (DOMAIN space) \cup {key} |-> IF n = key THEN v ELSE space[n]]

NSStackNew == <<NewNamespace>>

RECURSIVE LookupFrom(_, _, _)
LookupFrom(sp, name, i) ==
    IF i = 0 THEN [ok |-> FALSE, v |-> VariableNotFound(name)]
    ELSE IF name \in DOMAIN sp[i] THEN [ok |-> TRUE, v |-> sp[i][name]]
    ELSE LookupFrom(sp, name, i - 1)

\* lookup without the .rev(): the outermost frame that binds the name wins
lookup_outermost_first(sp, name) ==
    LET idx == {i \in 1..Len(sp) : name \in DOMAIN sp[i]} IN
    IF idx = {} THEN [ok |-> FALSE, v |-> VariableNotFound(name)]
    ELSE [ok |-> TRUE, v |-> sp[CHOOSE i \in idx : \A j \in idx : i <= j][name]]

lookup(sp, name) == LookupFrom(sp, name, Len(sp))

enter_scope(sp) == Append(sp, NewNamespace)

exit_scope(sp) == IF Len(sp) = 0 THEN sp ELSE SubSeq(sp, 1, Len(sp) - 1)

top_insert(sp, key, v) == [sp EXCEPT ![Len(sp)] = Insert(@, key, v)]

register_intrinsic(sp, name, f) ==
    IF Len(sp) = 0 THEN [ok |-> FALSE, sp |-> sp]
    ELSE [ok |-> TRUE, sp |-> [sp EXCEPT ![1] = Insert(@, name, DIntrinsic(name, f))]]

----------------------------------------------------------------------------
(* Data: equality and truthiness *)

DataEq(l, r) ==
    CASE l.tag = "Quote" /\ r.tag = "Quote" -> l.n = r.n
      [] l.tag = "Int" /\ r.tag = "Int" -> l.i = r.i
      [] l.tag = "Str" /\ r.tag = "Str" -> l.s = r.s
      [] l.tag = "Intrinsic" /\ r.tag = "Intrinsic" -> l.name = r.name
      [] l.tag = "Function" /\ r.tag = "Function" -> l.argnames = r.argnames /\ l.body = r.body
      [] OTHER -> l.tag = r.tag

\* is_truthy with the test on strings inverted
is_truthy_empty_str(self) ==
    CASE self.tag = "Quote" -> self.n = Identifier("true")
      [] self.tag = "Int" -> self.i # 0
      [] self.tag = "Str" -> self.s = ""
      [] OTHER -> FALSE

is_truthy(self) ==
    CASE self.tag = "Quote" -> self.n = Identifier("true")
      [] self.tag = "Int" -> self.i # 0
      [] self.tag = "Str" -> self.s # ""
      [] self.tag = "Intrinsic" -> FALSE
      [] self.tag = "Function" -> FALSE
      [] self.tag = "Empty" -> FALSE

(* i32 arithmetic as the intrinsics perform it *)

\* a / b rounded toward zero, for b # 0 and (a, b) # (i32::MIN, -1)
TruncDiv(a, b) ==
    IF b = I32Min THEN (IF a = I32Min THEN 1 ELSE 0)
    ELSE LET m == IF b < 0 THEN -b ELSE b
             fq == a \div m
             tq == IF a < 0 /\ a % m # 0 THEN fq + 1 ELSE fq
         IN  IF b < 0 THEN -tq ELSE tq

TruncRem(a, b) == a - b * TruncDiv(a, b)

\* two's-complement a + b, computed without leaving the 32-bit range
WrapAdd(a, b) ==
    IF b > 0 /\ a > I32Max - b THEN (a + I32Min) + (b + I32Min)
    ELSE IF b < 0 /\ a < I32Min - b THEN (a - I32Min) + (b - I32Min)
    ELSE a + b

AddOverflows(a, b) == (b > 0 /\ a > I32Max - b) \/ (b < 0 /\ a < I32Min - b)

\* two's-complement a - b
WrapSub(a, b) ==
    IF b < 0 /\ a > I32Max + b THEN (a + I32Min) - (b - I32Min)
    ELSE IF b > 0 /\ a < I32Min + b THEN (a - I32Min) - (b + I32Min)
    ELSE a - b

SubOverflows(a, b) == (b < 0 /\ a > I32Max + b) \/ (b > 0 /\ a < I32Min + b)

\* two's-complement a * b, by doubling
RECURSIVE WrapMul(_, _)
WrapMul(a, b) ==
    IF b = 0 THEN 0
    ELSE IF b = I32Min THEN (IF a % 2 = 0 THEN 0 ELSE I32Min)
    ELSE IF b < 0 THEN WrapSub(0, WrapMul(a, -b))
    ELSE WrapAdd(IF b % 2 = 1 THEN a ELSE 0, WrapMul(WrapAdd(a, a), b \div 2))

MulOverflows(a, b) ==
    /\ a # 0
    /\ b # 0
    /\ \/ (a = I32Min /\ b = -1)
       \/ (b = I32Min /\ a = -1)
       \/ TruncDiv(WrapMul(a, b), b) # a

\* the result of +, - or *: an out-of-range result traps or wraps, as the build decides
Arith(overflows, wrapped, st) ==
    IF overflows /\ overflow_checks THEN Panic(st)
    ELSE Ok(DInt(wrapped), st)

\* a / b: a zero divisor and i32::MIN / -1 panic in every build
IntDiv(a, b, st) ==
    IF b = 0 \/ (a = I32Min /\ b = -1) THEN Panic(st)
    ELSE Ok(DInt(TruncDiv(a, b)), st)

\* a % b
IntRem(a, b, st) ==
    IF b = 0 \/ (a = I32Min /\ b = -1) THEN Panic(st)
    ELSE Ok(DInt(TruncRem(a, b)), st)

----------------------------------------------------------------------------
(* The interpreter.  st = [spaces, trace] is the state an evaluation threads *)
(* through; d is what is left of the host call stack.                       *)

RECURSIVE Eval(_, _, _), exec(_, _, _, _), BindParams(_, _, _, _, _)
RECURSIVE CallIntrinsic(_, _, _, _)
RECURSIVE LetLoop(_, _, _, _), DoLoop(_, _, _, _, _), DebugLoop(_, _, _, _)

\* `let left = args[0].eval(stack)?; let right = args[1].eval(stack)?;`
EvalPair(st, args, d) ==
    LET left == Eval(args[1], st, d) IN
    IF left.kind # "Ok" THEN left
    ELSE LET right == Eval(args[2], left.st, d) IN
         IF right.kind # "Ok" THEN right
         ELSE Ok(<<left.v, right.v>>, right.st)

LetLoop(st, args, j, d) ==
    IF j > Len(args) THEN Ok(DEmpty, st)
    ELSE IF args[j].k = "Identifier"
    THEN LET r == Eval(args[j + 1], st, d) IN
         IF r.kind = "Err" THEN Panic(r.st)                    \* .unwrap() on Err
         ELSE IF r.kind # "Ok" THEN r
         ELSE IF Len(r.st.spaces) = 0 THEN Panic(r.st)         \* top().unwrap() on StackEmpty
         ELSE LetLoop([r.st EXCEPT !.spaces = top_insert(@, args[j].x, r.v)], args, j + 2, d)
    ELSE Err(TypeError("is not an identifier."), st)

f_let(st, args, d) ==
    IF Len(args) % 2 # 0 THEN Err(SyntaxError("Variable declaration mismatch."), st)
    ELSE LetLoop(st, args, 1, d)

DoLoop(st, args, j, ret, d) ==
    IF j > Len(args) THEN ret
    ELSE LET r == Eval(args[j], st, d) IN
         IF r.kind # "Ok" THEN r
         ELSE DoLoop(r.st, args, j + 1, r, d)

f_do(st, args, d) == DoLoop(st, args, 1, Err(SyntaxError("Empty do block"), st), d)

f_if(st, args, d) ==
    IF Len(args) # 3 THEN Err(SyntaxError("If statement should have 3 arguments."), st)
    ELSE LET c == Eval(args[1], st, d) IN
         IF c.kind # "Ok" THEN c
         ELSE IF is_truthy(c.v) THEN Eval(args[2], c.st, d)
         ELSE Eval(args[3], c.st, d)

f_fn(st, args, d) ==
    IF Len(args) = 0
    THEN Err(SyntaxError("Function declaration should get a list of arguments and a body!"), st)
    ELSE IF args[1].k = "List"
    THEN IF \E i \in 1..Len(args[1].ops) : args[1].ops[i].k # "Identifier"
         THEN Err(SyntaxError("When declaring function, all arguments should be identifiers."), st)
         ELSE IF Len(args) < 2
         THEN Err(SyntaxError("Function declaration doesn't have a body!"), st)
         ELSE Ok(DFunction([i \in 1..Len(args[1].ops) |-> args[1].ops[i].x], args[2]), st)
    ELSE Err(SyntaxError("Function arguments should be given in a list."), st)

quote(st, args, d) ==
    IF Len(args) = 0 THEN Err(SyntaxError("Quote received zero arguments."), st)
    ELSE Ok(DQuote(args[1]), st)

unquote(st, args, d) ==
    IF Len(args) = 0 THEN Err(SyntaxError("Quote received zero arguments."), st)
    ELSE LET data == Eval(args[1], st, d) IN
         IF data.kind # "Ok" THEN data
         ELSE IF data.v.tag = "Quote" THEN Eval(data.v.n, data.st, d)
         ELSE Err(TypeError("is not a quote."), data.st)

DebugLoop(st, args, j, d) ==
    IF j > Len(args) THEN Ok(DEmpty, st)
    ELSE LET r == Eval(args[j], st, d) IN
         IF r.kind # "Ok" THEN r
         ELSE DebugLoop(r.st, args, j + 1, d)

debug(st, args, d) == DebugLoop(st, args, 1, d)

eq(st, args, d) ==
    IF Len(args) # 2 THEN Err(SyntaxError("= only takes 2 arguments"), st)
    ELSE LET p == EvalPair(st, args, d) IN
         IF p.kind # "Ok" THEN p
         ELSE Ok(DInt(IF DataEq(p.v[1], p.v[2]) THEN 1 ELSE 0), p.st)

ne(st, args, d) ==
    IF Len(args) # 2 THEN Err(SyntaxError("= only takes 2 arguments"), st)
    ELSE LET p == EvalPair(st, args, d) IN
         IF p.kind # "Ok" THEN p
         ELSE Ok(DInt(IF DataEq(p.v[1], p.v[2]) THEN 0 ELSE 1), p.st)

BothInt(p) == p.v[1].tag = "Int" /\ p.v[2].tag = "Int"

add(st, args, d) ==
    IF Len(args) # 2 THEN Err(SyntaxError("+ only takes 2 arguments"), st)
    ELSE LET p == EvalPair(st, args, d) IN
         IF p.kind # "Ok" THEN p
         ELSE IF BothInt(p) THEN Arith(AddOverflows(p.v[1].i, p.v[2].i), WrapAdd(p.v[1].i, p.v[2].i), p.st)
         ELSE Err(TypeError("You can only add integers."), p.st)

sub(st, args, d) ==
    IF Len(args) # 2 THEN Err(SyntaxError("- only takes 2 arguments"), st)
    ELSE LET p == EvalPair(st, args, d) IN
         IF p.kind # "Ok" THEN p
         ELSE IF BothInt(p) THEN Arith(SubOverflows(p.v[1].i, p.v[2].i), WrapSub(p.v[1].i, p.v[2].i), p.st)
         ELSE Err(TypeError("You can only add integers."), p.st)

mul(st, args, d) ==
    IF Len(args) # 2 THEN Err(SyntaxError("* only takes 2 arguments"), st)
    ELSE LET p == EvalPair(st, args, d) IN
         IF p.kind # "Ok" THEN p
         ELSE IF BothInt(p) THEN Arith(MulOverflows(p.v[1].i, p.v[2].i), WrapMul(p.v[1].i, p.v[2].i), p.st)
         ELSE Err(TypeError("You can only add integers."), p.st)

div(st, args, d) ==
    IF Len(args) # 2 THEN Err(SyntaxError("/ only takes 2 arguments"), st)
    ELSE LET p == EvalPair(st, args, d) IN
         IF p.kind # "Ok" THEN p
         ELSE IF BothInt(p) THEN IntDiv(p.v[1].i, p.v[2].i, p.st)
         ELSE Err(TypeError("You can only add integers."), p.st)

modul(st, args, d) ==
    IF Len(args) # 2 THEN Err(SyntaxError("mod only takes 2 arguments"), st)
    ELSE LET p == EvalPair(st, args, d) IN
         IF p.kind # "Ok" THEN p
         ELSE IF BothInt(p) THEN IntRem(p.v[1].i, p.v[2].i, p.st)
         ELSE Err(TypeError("You can only add integers."), p.st)

\* the call through the function pointer an Intrinsic value carries
CallIntrinsic(f, st, args, d) ==
    CASE f = "f_let" -> f_let(st, args, d)
      [] f = "f_do" -> f_do(st, args, d)
      [] f = "f_if" -> f_if(st, args, d)
      [] f = "f_fn" -> f_fn(st, args, d)
      [] f = "quote" -> quote(st, args, d)
      [] f = "unquote" -> unquote(st, args, d)
      [] f = "debug" -> debug(st, args, d)
      [] f = "eq" -> eq(st, args, d)
      [] f = "ne" -> ne(st, args, d)
      [] f = "add" -> add(st, args, d)
      [] f = "sub" -> sub(st, args, d)
      [] f = "mul" -> mul(st, args, d)
      [] f = "div" -> div(st, args, d)
      [] f = "modul" -> modul(st, args, d)

\* the parameter loop with every argument evaluated on the caller's frames, the new
\* frame being set aside while the argument is evaluated
BindParams_caller_scope(argnames, params, i, st, d) ==
    IF i > Len(params) THEN Ok(DEmpty, st)
    ELSE LET frame == st.spaces[Len(st.spaces)]
             param_data == Eval(params[i], [st EXCEPT !.spaces = exit_scope(@)], d) IN
         IF param_data.kind # "Ok" THEN [param_data EXCEPT !.st.spaces = Append(@, frame)]
         ELSE BindParams(argnames, params, i + 1,
                         [param_data.st EXCEPT
                             !.spaces = top_insert(Append(@, frame), argnames[i], param_data.v)], d)

\* the `for (i, param) in params.iter().enumerate()` loop of Data::exec
BindParams(argnames, params, i, st, d) ==
    IF i > Len(params) THEN Ok(DEmpty, st)
    ELSE LET param_data == Eval(params[i], st, d) IN
         IF param_data.kind # "Ok" THEN param_data                       \* `?`
         ELSE IF Len(param_data.st.spaces) = 0 THEN Err(StackEmpty, param_data.st)  \* top()?
         ELSE BindParams(argnames, params, i + 1,
                         [param_data.st EXCEPT !.spaces = top_insert(@, argnames[i], param_data.v)], d)

exec(self, st, params, d) ==
    CASE self.tag = "Intrinsic" -> CallIntrinsic(self.f, st, params, d)
      [] self.tag = "Function" ->
            IF Len(params) # Len(self.argnames)
            THEN Err(SyntaxError("Wrong function argument count."), st)
            ELSE LET b == BindParams(self.argnames, params, 1,
                                     [st EXCEPT !.spaces = enter_scope(@)], d) IN
                 IF b.kind # "Ok" THEN b
                 ELSE LET r == Eval(self.body, b.st, d) IN
                      IF r.kind \in {"Panic", "Exhausted"} THEN r
                      ELSE [r EXCEPT !.st.spaces = exit_scope(@)]
      [] OTHER -> Err(TypeError("is not callable."), st)

Eval(self, st0, d) ==
    IF d = 0 THEN Exhausted(st0)
    ELSE LET st == [st0 EXCEPT !.trace = Append(@, self)] IN
         CASE self.k = "Identifier" ->
                LET r == lookup(st.spaces, self.x) IN
                IF r.ok THEN Ok(r.v, st) ELSE Err(r.v, st)
           [] self.k = "List" ->
                IF Len(self.ops) = 0
                THEN Err(SyntaxError("List expression with zero arguments."), st)
                ELSE LET fun == Eval(self.ops[1], st, d - 1) IN
                     IF fun.kind # "Ok" THEN fun
                     ELSE exec(fun.v, fun.st, Tail(self.ops), d - 1)
           [] self.k = "StringLiteral" -> Ok(DStr(self.s), st)
           [] self.k = "IntegerLiteral" -> Ok(DInt(self.i), st)
           [] self.k = "Quote" -> Ok(DQuote(self.boxed), st)

----------------------------------------------------------------------------
(* Runtime (runtime/mod.rs) driven by the loop of main.rs *)

\* the registrations of Runtime::try_new, in order
Registered ==
    << <<"let", "f_let">>, <<"quote", "quote">>, <<"unquote", "unquote">>, <<"do", "f_do">>,
       <<"if", "f_if">>, <<"fn", "f_fn">>, <<"debug", "debug">> >>

RECURSIVE RegisterAll(_, _, _)
RegisterAll(sp, table, i) ==
    IF i > Len(table) THEN [ok |-> TRUE, sp |-> sp]
    ELSE LET r == register_intrinsic(sp, table[i][1], table[i][2]) IN
         IF ~r.ok THEN r ELSE RegisterAll(r.sp, table, i + 1)

try_new == RegisterAll(NSStackNew, Registered, 1)

\* short forms for the syntax trees the parser produces
Id(x) == Identifier(x)
Num(i) == IntegerLiteral(i)
Str(s) == StringLiteral(s)
L(ops) == List(ops)

\* (let f (fn (a) a) g (fn (a) y) k (fn (f b) b) h (fn (a a) a) r (fn () (r)))
Defs ==
    L(<<Id("let"),
        Id("f"), L(<<Id("fn"), L(<<Id("a")>>), Id("a")>>),
        Id("g"), L(<<Id("fn"), L(<<Id("a")>>), Id("y")>>),
        Id("k"), L(<<Id("fn"), L(<<Id("f"), Id("b")>>), Id("b")>>),
        Id("h"), L(<<Id("fn"), L(<<Id("a"), Id("a")>>), Id("a")>>),
        Id("r"), L(<<Id("fn"), L(<<>>), L(<<Id("r")>>)>>)>>)

CallOk == L(<<Id("f"), Num(1)>>)                    \* (f 1)
CallBodyErr == L(<<Id("g"), Num(1)>>)               \* (g 1), the body reads y
CallArity == L(<<Id("f"), Num(1), Num(2)>>)         \* (f 1 2)
CallArgErr == L(<<Id("k"), Num(1), Id("y")>>)       \* (k 1 y), y unbound
CallDup == L(<<Id("h"), Num(1), Num(2)>>)           \* (h 1 2)
CallRec == L(<<Id("r")>>)                           \* (r)
ShadowFn == L(<<Id("fn"), L(<<Id("x"), Id("b")>>), Id("b")>>)   \* (fn (x b) b)
CallShadow == L(<<ShadowFn, Num(1), Id("x")>>)      \* ((fn (x b) b) 1 x)
LetX == L(<<Id("let"), Id("x"), Num(5)>>)           \* (let x 5)
LetErr == L(<<Id("let"), Id("x"), Id("y")>>)        \* (let x y)
ReadX == Id("x")
Scenario1 ==                                        \* (do (let x 5) (+ x 3))
    L(<<Id("do"), L(<<Id("let"), Id("x"), Num(5)>>), L(<<Id("+"), Id("x"), Num(3)>>)>>)
Sum12 == L(<<Id("+"), Num(1), Num(2)>>)             \* (+ 1 2)
Do23 == L(<<Id("do"), Num(2), Num(3)>>)             \* (do 2 3)
LetQ(e) == L(<<Id("let"), Id("q"), L(<<Id("quote"), e>>)>>)   \* (let q (quote e))
UnquoteQ == L(<<Id("unquote"), Id("q")>>)           \* (unquote q)
Quoted == {Sum12, Do23}

\* the conditions tried by `if`, one or more per Data variant
Conds ==
    { Num(0), Num(1), Str(""), Str("x"), QuoteNode(Id("true")), QuoteNode(Id("x")),
      Id("let"), L(<<Id("fn"), L(<<>>), Num(1)>>), L(<<Id("let")>>), Id("y") }
Yes == Str("yes")
No == Str("no")
If(c) == L(<<Id("if"), c, Yes, No>>)                \* (if c "yes" "no")
IfShort == L(<<Id("if"), Num(1), Yes>>)             \* (if 1 "yes")
IfLong == L(<<Id("if"), Num(1), Yes, No, No>>)      \* (if 1 "yes" "no" "no")
IfGuard(c) == L(<<Id("if"), c, Yes, LetErr>>)        \* (if c "yes" (let x y))

Programs ==
    { Defs, CallOk, CallArgErr, CallBodyErr, CallArity, CallDup, CallRec, CallShadow,
      LetX, LetErr, ReadX, Scenario1, UnquoteQ, IfShort, IfLong }
    \cup { LetQ(e) : e \in Quoted }
    \cup { If(c) : c \in Conds }
    \cup { IfGuard(Num(1)), IfGuard(Num(0)) }

Outcome(r) == [kind |-> r.kind, v |-> r.v]
Unit == [kind |-> "Ok", v |-> DEmpty]

StatusAfter(r) ==
    CASE r.kind = "Panic" -> "panicked"
      [] r.kind = "Exhausted" -> "exhausted"
      [] OTHER -> "running"

Init ==
    /\ spaces = try_new.sp
    /\ status = "running"
    /\ node = NoNode
    /\ result = Unit
    /\ trace = <<>>
    /\ entered = <<>>
    /\ overflow_checks \in BOOLEAN

\* one turn of the loop of main: `let result = runtime.eval(node)`
RuntimeEval(n) ==
    /\ status = "running"
    /\ Len(spaces) <= MaxFrames
    /\ LET r == Eval(n, [spaces |-> spaces, trace |-> <<>>], MaxDepth) IN
         /\ spaces' = r.st.spaces
         /\ trace' = r.st.trace
         /\ result' = Outcome(r)
         /\ status' = StatusAfter(r)
    /\ node' = n
    /\ UNCHANGED <<entered, overflow_checks>>

Next == \E n \in Programs : RuntimeEval(n)

Spec == Init /\ [][Next]_vars

----------------------------------------------------------------------------
(* NSStack used directly through its public interface *)

\* intrinsics of intrinsic.rs registered by hand, under the names of the language
Registrable == { <<"/", "div">>, <<"mod", "modul">> }

Keys == {"x"}
Values == { DInt(1), DFunction(<<"a">>, Id("a")) }
Names == {"x"}

Dividends == {10, -7, I32Min}
Operands == {<<a, 0>> : a \in Dividends} \cup {<<10, 3>>, <<-7, 3>>, <<I32Min, -1>>}
DivOf(a, b) == L(<<Id("/"), Num(a), Num(b)>>)       \* (/ a b)
ModOf(a, b) == L(<<Id("mod"), Num(a), Num(b)>>)     \* (mod a b)
ApplyX == L(<<Id("x"), Id("y")>>)                   \* (x y), y unbound

NSPrograms ==
    { DivOf(p[1], p[2]) : p \in Operands }
    \cup { ModOf(p[1], p[2]) : p \in Operands }
    \cup { ApplyX }

Last(s) == s[Len(s)]
Front(s) == SubSeq(s, 1, Len(s) - 1)

InitNS ==
    /\ spaces = NSStackNew
    /\ status = "running"
    /\ node = NoNode
    /\ result = Unit
    /\ trace = <<>>
    /\ entered = <<>>
    /\ overflow_checks \in BOOLEAN

EnterScope ==
    /\ status = "running"
    /\ Len(spaces) < MaxFrames
    /\ spaces' = enter_scope(spaces)
    /\ entered' = Append(entered, [depth |-> Len(spaces) + 1, before |-> spaces,
                                   visible |-> [n \in Names |-> lookup(spaces, n)],
                                   registered |-> FALSE])
    /\ result' = Unit
    /\ node' = NoNode
    /\ trace' = <<>>
    /\ UNCHANGED <<status, overflow_checks>>

\* the exit_scope that pops the frame the last recorded enter_scope pushed is its match
Matches(ent, sp) == ent # <<>> /\ Last(ent).depth = Len(sp)

ExitScope ==
    /\ status = "running"
    /\ spaces' = exit_scope(spaces)
    /\ entered' = IF Matches(entered, spaces) THEN Front(entered) ELSE entered
    /\ result' = Unit
    /\ node' = NoNode
    /\ trace' = <<>>
    /\ UNCHANGED <<status, overflow_checks>>

Top ==
    /\ status = "running"
    /\ result' = IF Len(spaces) = 0 THEN [kind |-> "Err", v |-> StackEmpty] ELSE Unit
    /\ node' = NoNode
    /\ trace' = <<>>
    /\ UNCHANGED <<spaces, status, entered, overflow_checks>>

\* stack.top()?.insert(key, v)
TopInsert(key, v) ==
    /\ status = "running"
    /\ IF Len(spaces) = 0
       THEN /\ result' = [kind |-> "Err", v |-> StackEmpty]
            /\ UNCHANGED spaces
       ELSE /\ result' = Unit
            /\ spaces' = top_insert(spaces, key, v)
    /\ node' = NoNode
    /\ trace' = <<>>
    /\ UNCHANGED <<status, entered, overflow_checks>>

Lookup(name) ==
    /\ status = "running"
    /\ LET r == lookup(spaces, name) IN
         result' = [kind |-> IF r.ok THEN "Ok" ELSE "Err", v |-> r.v]
    /\ node' = NoNode
    /\ trace' = <<>>
    /\ UNCHANGED <<spaces, status, entered, overflow_checks>>

RegisterIntrinsic(name, f) ==
    /\ status = "running"
    /\ LET r == register_intrinsic(spaces, name, f) IN
         /\ spaces' = r.sp
         /\ result' = IF r.ok THEN Unit ELSE [kind |-> "Err", v |-> StackEmpty]
         /\ entered' = [i \in 1..Len(entered) |-> [entered[i] EXCEPT !.registered = @ \/ r.ok]]
    /\ node' = NoNode
    /\ trace' = <<>>
    /\ UNCHANGED <<status, overflow_checks>>

\* node.eval(&mut stack)
NSEval(n) ==
    /\ status = "running"
    /\ Len(spaces) <= MaxFrames
    /\ LET r == Eval(n, [spaces |-> spaces, trace |-> <<>>], MaxDepth) IN
         /\ spaces' = r.st.spaces
         /\ trace' = r.st.trace
         /\ result' = Outcome(r)
         /\ status' = StatusAfter(r)
    /\ node' = n
    /\ UNCHANGED <<entered, overflow_checks>>

NextNS ==
    \/ EnterScope
    \/ ExitScope
    \/ Top
    \/ \E key \in Keys, v \in Values : TopInsert(key, v)
    \/ \E name \in Names : Lookup(name)
    \/ \E t \in Registrable : RegisterIntrinsic(t[1], t[2])
    \/ \E n \in NSPrograms : NSEval(n)

SpecNS == InitNS /\ [][NextNS]_vars

----------------------------------------------------------------------------
(* Properties *)

Fresh(sp) == [spaces |-> sp, trace |-> <<>>]

\* n is a list whose head evaluates, on the stack sp, to a user-defined Function
AppliesFunction(n, sp) ==
    /\ n.k = "List"
    /\ Len(n.ops) > 0
    /\ LET fun == Eval(n.ops[1], Fresh(sp), MaxDepth) IN
         fun.kind = "Ok" /\ fun.v.tag = "Function"

IsIntrinsic(sp, name, f) ==
    LET r == lookup(sp, name) IN r.ok /\ r.v.tag = "Intrinsic" /\ r.v.f = f

\* C1: an application of a user-defined Function that returns an error, raised by
\* an argument or by the body, leaves as many frames on the scope stack as it found.
C1_FrameBalance ==
    [][(AppliesFunction(node', spaces) /\ result'.kind = "Err")
         => Len(spaces') = Len(spaces)]_vars

\* C2: the scope stack always holds at least the base frame, whatever sequence of
\* enter_scope, exit_scope, top, register_intrinsic and eval is applied to it.
C2_NeverEmpty == Len(spaces) >= 1

\* C3: an error met while evaluating a top-level expression comes back from
\* Runtime::eval as Err; the process never aborts on it, in particular not on a
\* `let` whose value expression fails.
C3_ErrorsAreValues == status # "panicked"

\* C4: `/` and `mod` applied to Int(a) and Int(0) return Err(Runtime), and
\* (mod 10 3) is Int(1).
C4_DivModByZero ==
    /\ \A a \in Dividends :
         /\ (node = DivOf(a, 0) /\ IsIntrinsic(spaces, "/", "div"))
              => (result.kind = "Err" /\ result.v.e = "Runtime")
         /\ (node = ModOf(a, 0) /\ IsIntrinsic(spaces, "mod", "modul"))
              => (result.kind = "Err" /\ result.v.e = "Runtime")
    /\ (node = ModOf(10, 3) /\ IsIntrinsic(spaces, "mod", "modul"))
         => result = [kind |-> "Ok", v |-> DInt(1)]

IntrinsicNames ==
    {"let", "do", "if", "fn", "quote", "unquote", "debug", "+", "-", "*", "/", "mod", "=", "!="}

\* C5: right after Runtime::try_new every name of the intrinsic table resolves to
\* the Intrinsic of that name, held in frame 0, and (do (let x 5) (+ x 3)) is Int(8).
C5_AllRegistered ==
    /\ node = NoNode =>
         \A name \in IntrinsicNames :
            /\ name \in DOMAIN spaces[1]
            /\ spaces[1][name].tag = "Intrinsic"
            /\ spaces[1][name].name = name
            /\ lookup(spaces, name) = [ok |-> TRUE, v |-> spaces[1][name]]
    /\ node = Scenario1 => result = [kind |-> "Ok", v |-> DInt(8)]

HasRepeat(seq) == \E i, j \in 1..Len(seq) : i # j /\ seq[i] = seq[j]

\* C6: `fn` accepts a parameter list that repeats an identifier, and applying the
\* resulting Function to as many arguments as it has parameters is an error.
C6_DupParamsRejected ==
    /\ (node = Defs /\ status = "running") =>
         /\ result = Unit
         /\ lookup(spaces, "h") = [ok |-> TRUE, v |-> DFunction(<<"a", "a">>, Id("a"))]
    /\ (/\ node = CallDup
        /\ lookup(spaces, "h").ok
        /\ lookup(spaces, "h").v.tag = "Function"
        /\ HasRepeat(lookup(spaces, "h").v.argnames)
        /\ Len(lookup(spaces, "h").v.argnames) = Len(CallDup.ops) - 1)
         => result.kind = "Err"

\* the binding of name in the innermost frame of sp that has one
Innermost(sp, name) ==
    LET idx == {i \in 1..Len(sp) : name \in DOMAIN sp[i]} IN
    IF idx = {} THEN [ok |-> FALSE, v |-> VariableNotFound(name)]
    ELSE [ok |-> TRUE, v |-> sp[CHOOSE i \in idx : \A j \in idx : j <= i][name]]

\* C7: lookup returns the binding of the innermost frame that has the name, and the
\* exit_scope matching an enter_scope restores, for every name, what lookup returned
\* before that enter_scope, the frames below being as they were (whatever was bound,
\* entered, exited or evaluated in between; intrinsics are registered at construction,
\* not inside a scope).
C7_Shadowing ==
    [][/\ \A n \in Names : lookup(spaces', n) = Innermost(spaces', n)
       /\ (Matches(entered, spaces) /\ entered' = Front(entered) /\ ~Last(entered).registered) =>
            /\ spaces' = Last(entered).before
            /\ \A n \in Names : lookup(spaces', n) = Last(entered).visible[n]]_vars

\* a frame pushed by enter_scope binds x over a different outer binding of x
C7_Witness ==
    /\ Matches(entered, spaces)
    /\ ~Last(entered).registered
    /\ "x" \in DOMAIN spaces[Len(spaces)]
    /\ Last(entered).visible["x"].ok
    /\ lookup(spaces, "x") # Last(entered).visible["x"]

Count(seq, n) == Cardinality({i \in 1..Len(seq) : seq[i] = n})

\* the truthiness table: Int(i) iff i # 0, Str(s) iff s is not empty,
\* Quote(n) iff n is the identifier true, anything else never
Truthy(v) ==
    \/ v.tag = "Int" /\ v.i # 0
    \/ v.tag = "Str" /\ Len(v.s) > 0
    \/ v.tag = "Quote" /\ v.n = Identifier("true")

Chosen(branch) == [kind |-> "Ok", v |-> DStr(branch.s)]

\* C8: `if` with 3 arguments evaluates its condition once and then exactly one
\* branch, the first iff the condition's value is truthy by the table; the branch not
\* chosen is not evaluated, so its failure does not happen; with another number of
\* arguments the result is SyntaxError and no argument is evaluated.
C8_IfLazy ==
    [][/\ \A c \in Conds : node' = If(c) =>
            LET cv == Eval(c, Fresh(spaces), MaxDepth) IN
            /\ Count(trace', c) = 1
            /\ Count(trace', Yes) + Count(trace', No) <= 1
            /\ cv.kind = "Ok" =>
                 /\ Truthy(cv.v) => (result' = Chosen(Yes) /\ Count(trace', Yes) = 1)
                 /\ ~Truthy(cv.v) => (result' = Chosen(No) /\ Count(trace', No) = 1)
            /\ cv.kind # "Ok" =>
                 (result' = Outcome(cv) /\ Count(trace', Yes) + Count(trace', No) = 0)
       /\ node' = IfGuard(Num(1)) =>
            (result' = Chosen(Yes) /\ status' = "running" /\ Count(trace', LetErr) = 0)
       /\ node' \in {IfShort, IfLong} =>
            /\ result'.kind = "Err"
            /\ result'.v.e = "SyntaxError"
            /\ trace' = <<node', Id("if")>>
            /\ spaces' = spaces]_vars

\* an `if` has just chosen its second branch on a falsy non-integer condition
C8_Witness ==
    /\ node = If(Str(""))
    /\ result = Chosen(No)
    /\ Count(trace, Yes) = 0

\* C9: after (let q (quote e)) lookup(q) is Quote(e), e not having been evaluated, and
\* a later (unquote q) yields what e evaluates to: Int(3) for (+ 1 2) and for (do 2 3).
C9_QuoteUnquote ==
    /\ \A e \in Quoted : (node = LetQ(e) /\ status = "running") =>
         /\ lookup(spaces, "q") = [ok |-> TRUE, v |-> DQuote(e)]
         /\ Count(trace, e) = 0
    /\ (node = UnquoteQ /\ \E e \in Quoted : lookup(spaces, "q") = [ok |-> TRUE, v |-> DQuote(e)])
         => result = [kind |-> "Ok", v |-> DInt(3)]

\* the names a `let` anywhere in node n binds
RECURSIVE LetTargets(_)
LetTargets(n) ==
    IF n.k = "List"
    THEN UNION {LetTargets(n.ops[i]) : i \in 1..Len(n.ops)}
         \cup (IF Len(n.ops) > 0 /\ n.ops[1] = Id("let")
               THEN {n.ops[j].x : j \in {i \in 2..Len(n.ops) : i % 2 = 0 /\ n.ops[i].k = "Identifier"}}
               ELSE {})
    ELSE IF n.k = "Quote" THEN LetTargets(n.boxed)
    ELSE {}

TopNames == {"x", "q", "f"}

\* C10: a binding made by a top-level `let` is returned by lookup in every later
\* eval until a `let` binds the name again, and a top-level `let` changes the
\* innermost frame only.
C10_Persist ==
    [][status' = "running" =>
         /\ \A n \in TopNames :
              (lookup(spaces, n).ok /\ n \notin LetTargets(node'))
                 => lookup(spaces', n) = lookup(spaces, n)
         /\ (node' = LetX /\ result' = Unit) =>
              /\ lookup(spaces', "x") = [ok |-> TRUE, v |-> DInt(5)]
              /\ Len(spaces') = Len(spaces)
              /\ \A i \in 1..(Len(spaces) - 1) : spaces'[i] = spaces[i]]_vars

\* C11: applying a Function to as many arguments as it has parameters pushes the new
\* frame first, then evaluates the argument nodes left to right in that frame, binding
\* each under its parameter name before the next is evaluated: in ((fn (x b) b) 1 x)
\* the second argument x is the 1 just bound, whatever x is for the caller, and when
\* the second argument of (k 1 y) fails the new frame already holds the first.
C11_ArgOrder ==
    [][/\ node' = CallShadow =>
            /\ result' = [kind |-> "Ok", v |-> DInt(1)]
            /\ trace' = <<CallShadow, ShadowFn, Id("fn"), Num(1), Id("x"), Id("b")>>
            /\ spaces' = spaces
       /\ (/\ node' = CallArgErr
           /\ lookup(spaces, "k") = [ok |-> TRUE, v |-> DFunction(<<"f", "b">>, Id("b"))]) =>
            /\ trace' = <<CallArgErr, Id("k"), Num(1), Id("y")>>
            /\ result' = [kind |-> "Err", v |-> VariableNotFound("y")]
            /\ spaces' = Append(spaces, Insert(NewNamespace, "f", DInt(1)))]_vars

\* ((fn (x b) b) 1 x) has returned 1 to a caller for whom x is 5
C11_Witness ==
    /\ node = CallShadow
    /\ result = [kind |-> "Ok", v |-> DInt(1)]
    /\ lookup(spaces, "x") = [ok |-> TRUE, v |-> DInt(5)]

====
